---- MODULE Spec2Model ----
(***************************************************************************)
(* Model of raglite's retrieval-augmented generation orchestrator          *)
(* (src/src/raglite/_rag.py): the token budget clipper _clip, the tool     *)
(* protocol manager _get_tools / _run_tools, the retrieval pipeline        *)
(* retrieve_rag_context and the two streaming entry points rag (blocking   *)
(* generator) and async_rag (asynchronous generator).                      *)
(*                                                                         *)
(* Strings are TLA+ strings: len() is Len, + is \o, str.startswith and the *)
(* `in` substring test are computed on the characters.  Python's None is   *)
(* the sentinel string None.                                               *)
(***************************************************************************)
EXTENDS Integers, Sequences, FiniteSets, TLC

\* ------------------------------------------------------------------ bounds
\* Longest caller-supplied message history.
MaxHistory == 2
\* Most chunks the completion backend delivers in one turn (both streams).
MaxDelivered == 2
\* Number of chunks stored in the knowledge base.
CorpusSize == 2
\* Largest num_chunks a direct caller of retrieve_rag_context passes.
MaxNumChunks == 4

\* Longest message list a direct caller of _clip passes.
MaxClipLen == 3
\* Largest max_tokens a direct caller of _clip passes.
MaxBudget == 5

\* --------------------------------------------------------------- constants
\* Default of retrieve_rag_context's num_chunks parameter.
DefaultNumChunks == 5

None == "<None>"

\* ----------------------------------------------------------- Python strings
\* str.startswith(prefix)
StartsWith(s, prefix) ==
    /\ Len(s) >= Len(prefix)
    /\ SubSeq(s, 1, Len(prefix)) = prefix

\* `sub in s` for strings
Contains(s, sub) ==
    \E i \in 1..(Len(s) - Len(sub) + 1) : SubSeq(s, i, i + Len(sub) - 1) = sub

\* `content or ""`
OrEmpty(content) == IF content = None THEN "" ELSE content

\* sep.join(parts)
RECURSIVE Join(_, _)
Join(parts, sep) ==
    IF parts = <<>> THEN ""
    ELSE IF Len(parts) = 1 THEN parts[1]
    ELSE parts[1] \o sep \o Join(Tail(parts), sep)

\* list[::-1]
Reverse(s) == [i \in 1..Len(s) |-> s[Len(s) + 1 - i]]

\* ------------------------------------------------------------------- _clip
\* Variant of ApproxTokens that counts characters instead of thirds.
ApproxTokens_Characters(message) == Len(OrEmpty(message.content))

\* len(message.get("content") or "") // 3
ApproxTokens(message) == Len(OrEmpty(message.content)) \div 3

\* np.cumsum
RECURSIVE SumTo(_, _)
SumTo(a, k) == IF k = 0 THEN 0 ELSE SumTo(a, k - 1) + a[k]
cumsum(a) == [k \in 1..Len(a) |-> SumTo(a, k)]

\* np.searchsorted(a, v) with the default side="left" on an ascending array:
\* the first index (0-based) whose entry is >= v, i.e. the number of entries
\* strictly below v.
searchsorted(a, v) == Cardinality({k \in 1..Len(a) : a[k] < v})

\* Variant of SliceFrom in which a start of 0 counts from the end like the
\* negative starts do, so that nothing is kept.
SliceFrom_NoneKept(messages, first_message) ==
    IF -first_message >= Len(messages)
    THEN messages
    ELSE SubSeq(messages, Len(messages) + first_message + 1, Len(messages))

\* messages[first_message:] for first_message <= 0 (Python slice semantics:
\* -0 is 0, and a start before the beginning is clamped to the beginning).
SliceFrom(messages, first_message) ==
    IF first_message = 0 \/ -first_message >= Len(messages)
    THEN messages
    ELSE SubSeq(messages, Len(messages) + first_message + 1, Len(messages))

_clip(messages, max_tokens) ==
    LET cum_tokens == cumsum(Reverse([i \in 1..Len(messages) |-> ApproxTokens(messages[i])]))
        first_message == -searchsorted(cum_tokens, max_tokens)
    IN  SliceFrom(messages, first_message)

\* -------------------------------------------------------------- _get_tools
SearchToolName == "search_knowledge_base"

\* Variant of RagContextMarkers that knows the document tag only.
RagContextMarkers_DocumentOnly == {"</document>"}

\* The two embedded-context markers _get_tools looks for.
RagContextMarkers == {"</document>", "from_chunk_id"}

\* any(s in final_message for s in ("</document>", "from_chunk_id"))
messages_contain_rag_context(messages) ==
    \E s \in RagContextMarkers : Contains(messages[Len(messages)].content, s)

\* "llama-cpp-python" if config.llm.startswith("llama-cpp") else None
llm_provider(config) ==
    IF StartsWith(config.llm, "llama-cpp") THEN "llama-cpp-python" ELSE None

\* The keys of the auto_tool_use_workaround dict.
auto_tool_use_workaround(config) ==
    IF llm_provider(config) = "llama-cpp-python" THEN <<"skip">> ELSE <<>>

\* The one-element tools list (only the parts of the schema that vary or
\* that a caller can observe are kept: name, property names, required).
SearchTool(config) ==
    [type |-> "function",
     name |-> SearchToolName,
     properties |-> auto_tool_use_workaround(config) \o <<"query">>,
     required |-> auto_tool_use_workaround(config) \o <<"query">>]

NoToolChoice == [type |-> None, name |-> None]
AutoToolChoice == [type |-> "auto", name |-> None]
ForcedToolChoice == [type |-> "function", name |-> SearchToolName]

\* Variant of _get_tools without the check of lines 97-99: the tool is
\* offered to a model that cannot call functions.
_get_tools_Unchecked(messages, config, supports) ==
    LET contain == messages_contain_rag_context(messages)
        tools == IF ~contain THEN <<SearchTool(config)>> ELSE <<>>
        tool_choice ==
            IF tools # <<>>
            THEN (IF auto_tool_use_workaround(config) # <<>>
                  THEN ForcedToolChoice ELSE AutoToolChoice)
            ELSE NoToolChoice
    IN  [raised |-> FALSE, tools |-> tools, tool_choice |-> tool_choice]

\* Variant of _get_tools that leaves the tool choice to the model for every
\* backend.
_get_tools_AlwaysAuto(messages, config, supports) ==
    LET contain == messages_contain_rag_context(messages)
        tools == IF ~contain THEN <<SearchTool(config)>> ELSE <<>>
        tool_choice == IF tools # <<>> THEN AutoToolChoice ELSE NoToolChoice
    IN  IF ~contain /\ ~supports
        THEN [raised |-> TRUE, tools |-> <<>>, tool_choice |-> NoToolChoice]
        ELSE [raised |-> FALSE, tools |-> tools, tool_choice |-> tool_choice]

\* _get_tools: raised is TRUE when the ValueError of line 99 is raised;
\* tools is <<>> for Python's None.  supports is the answer of litellm's
\* supports_function_calling(config.llm, llm_provider).
_get_tools(messages, config, supports) ==
    LET contain == messages_contain_rag_context(messages)
        tools == IF ~contain THEN <<SearchTool(config)>> ELSE <<>>
        tool_choice ==
            IF tools # <<>>
            THEN (IF auto_tool_use_workaround(config) # <<>>
                  THEN ForcedToolChoice ELSE AutoToolChoice)
            ELSE NoToolChoice
    IN  IF ~contain /\ ~supports
        THEN [raised |-> TRUE, tools |-> <<>>, tool_choice |-> NoToolChoice]
        ELSE [raised |-> FALSE, tools |-> tools, tool_choice |-> tool_choice]

\* json.dumps(tools), descriptions elided.
json_dumps(tools) ==
    "[" \o Join([i \in 1..Len(tools) |->
            "{\"type\": \"function\", \"function\": {\"name\": \"" \o tools[i].name
            \o "\", \"parameters\": {\"properties\": [\""
            \o Join(tools[i].properties, "\", \"")
            \o "\"], \"required\": [\""
            \o Join(tools[i].required, "\", \"") \o "\"]}}}"], ", ") \o "]"

\* The directive of lines 197-199 / 240-242.
ToolDirective(tools) ==
    "\n\nDecide whether to use or skip these tools in your response:\n"
    \o json_dumps(tools)

\* ---------------------------------------------------- retrieve_rag_context
\* Variant of extra_chunks that over-fetches twice instead of three times.
extra_chunks_Twice(num_chunks, config) ==
    IF config.reranker THEN 2 * num_chunks ELSE 0

\* extra_chunks of line 47.
extra_chunks(num_chunks, config) ==
    IF config.reranker THEN 3 * num_chunks ELSE 0

\* num_results passed to search on line 49.
num_results(num_chunks, config) == num_chunks + extra_chunks(num_chunks, config)

\* The search backend: the knowledge base holds chunks 1..CorpusSize, ranked
\* by id for every query; at most n of them are returned.
search(query, n) ==
    [i \in 1..(IF n < CorpusSize THEN n ELSE CorpusSize) |-> i]

\* The reranker: a configured reranker reorders the candidates (here: it
\* prefers the later chunk), without one the order is kept.
rerank_chunks(query, chunk_ids, config) ==
    IF config.reranker THEN Reverse(chunk_ids) ELSE chunk_ids

\* chunks[:num_chunks]
Truncate(s, n) == SubSeq(s, 1, IF n < Len(s) THEN n ELSE Len(s))

\* Span assembly: one span per retained chunk, in the order given.
retrieve_chunk_spans(chunks, neighbors) ==
    [i \in 1..Len(chunks) |-> "chunk " \o ToString(chunks[i])]

\* ChunkSpan.to_json(index)
to_json(chunk_span, index) ==
    "{\"index\": " \o ToString(index) \o ", \"content\": \"" \o chunk_span \o "\"}"

\* retrieve_rag_context: the request made to the search backend and the
\* returned context.
retrieve_rag_context(query, num_chunks, chunk_neighbors, config) ==
    LET n == num_results(num_chunks, config)
        chunk_ids == search(query, n)
        chunks == rerank_chunks(query, chunk_ids, config)
    IN  [query |-> query, num_chunks |-> num_chunks, num_results |-> n,
         context |-> retrieve_chunk_spans(Truncate(chunks, num_chunks), chunk_neighbors)]

\* -------------------------------------------------------------- _run_tools
\* The argument strings the completion backend produces, and json.loads of
\* each: has_* tell whether the key is present.
ArgQuery == "{\"query\": \"capital of France\"}"
ArgSkipQuery == "{\"skip\": true, \"query\": \"capital of France\"}"
ArgNull == "{\"query\": null}"
ArgEmpty == "{\"query\": \"\"}"
ArgNoQuery == "{}"

Arguments == {ArgQuery, ArgSkipQuery, ArgNull, ArgEmpty, ArgNoQuery}

json_loads(arguments) ==
    CASE arguments = ArgQuery ->
            [has_skip |-> FALSE, skip |-> FALSE, has_query |-> TRUE, query |-> "capital of France"]
      [] arguments = ArgSkipQuery ->
            [has_skip |-> TRUE, skip |-> TRUE, has_query |-> TRUE, query |-> "capital of France"]
      [] arguments = ArgNull ->
            [has_skip |-> FALSE, skip |-> FALSE, has_query |-> TRUE, query |-> None]
      [] arguments = ArgEmpty ->
            [has_skip |-> FALSE, skip |-> FALSE, has_query |-> TRUE, query |-> ""]
      [] OTHER ->
            [has_skip |-> FALSE, skip |-> FALSE, has_query |-> FALSE, query |-> None]

\* Variant of PopSkip that drops the parsed skip flag: the search is then run
\* even when the model declined it.
PopSkip_Ignored(kwargs) == FALSE

\* kwargs.pop("skip", False)
PopSkip(kwargs) == IF kwargs.has_skip THEN kwargs.skip ELSE FALSE

\* Truthiness of kwargs["query"]
Truthy(query) == query # None /\ query # ""

\* '{{"documents": [{elements}]}}'.format(elements=", ".join(to_json(i + 1) ...))
DocumentsContent(context) ==
    "{\"documents\": [" \o
    Join([i \in 1..Len(context) |-> to_json(context[i], (i - 1) + 1)], ", ")
    \o "]}"

\* One iteration of the loop of _run_tools (lines 164-184) on tool_call:
\* error is None, or the exception that leaves the loop; searched tells
\* whether retrieve_rag_context was called; retrieval_raises is whether that
\* call raises.
RunToolCall(tool_call, config, retrieval_raises) ==
    IF tool_call.name = SearchToolName
    THEN LET kwargs == json_loads(tool_call.arguments)
             skip == PopSkip(kwargs)
         IN  IF skip
             THEN [error |-> None, searched |-> FALSE, retrieval |-> <<>>,
                   message |-> <<[role |-> "tool", content |-> "{}", tool_calls |-> <<>>,
                                  tool_call_id |-> tool_call.id]>>]
             ELSE IF ~kwargs.has_query
             THEN [error |-> "KeyError", searched |-> FALSE, retrieval |-> <<>>,
                   message |-> <<>>]
             ELSE IF ~Truthy(kwargs.query)
             THEN [error |-> None, searched |-> FALSE, retrieval |-> <<>>,
                   message |-> <<[role |-> "tool", content |-> "{}", tool_calls |-> <<>>,
                                  tool_call_id |-> tool_call.id]>>]
             ELSE LET r == retrieve_rag_context(kwargs.query, DefaultNumChunks, <<-1, 1>>, config)
                      entry == [tool_call_id |-> tool_call.id, query |-> r.query,
                                num_results |-> r.num_results, context |-> r.context]
                  IN  IF retrieval_raises
                      THEN [error |-> "RetrievalError", searched |-> TRUE,
                            retrieval |-> <<entry>>, message |-> <<>>]
                      ELSE [error |-> None, searched |-> TRUE, retrieval |-> <<entry>>,
                            message |-> <<[role |-> "tool",
                                           content |-> DocumentsContent(r.context),
                                           tool_calls |-> <<>>,
                                           tool_call_id |-> tool_call.id]>>]
    ELSE [error |-> "ValueError: Unknown function", searched |-> FALSE,
          retrieval |-> <<>>, message |-> <<>>]

\* _run_tools: the loop over tool_calls.  fail_at is the position of the tool
\* call whose retrieval raises (0: none does).  tool_messages is what the
\* function returns when error is None; retrievals logs the calls made to
\* retrieve_rag_context.
RECURSIVE RunToolsFrom(_, _, _, _, _)
RunToolsFrom(tool_calls, i, config, fail_at, acc) ==
    IF i > Len(tool_calls) THEN acc
    ELSE LET one == RunToolCall(tool_calls[i], config, fail_at = i)
             acc2 == [error |-> one.error,
                      tool_messages |-> acc.tool_messages \o one.message,
                      retrievals |-> acc.retrievals \o one.retrieval]
         IN  IF one.error # None THEN acc2
             ELSE RunToolsFrom(tool_calls, i + 1, config, fail_at, acc2)

_run_tools(tool_calls, config, fail_at) ==
    RunToolsFrom(tool_calls, 1, config, fail_at,
                 [error |-> None, tool_messages |-> <<>>, retrievals |-> <<>>])

\* --------------------------------------------------- the completion backend
\* A streamed chunk: choices[0].delta.content (a string or None) and the
\* tool calls the delta carries.
TextChunk(token) == [content |-> token, tool_calls |-> <<>>]
EmptyChunk == [content |-> None, tool_calls |-> <<>>]
ToolCallChunk(id, name, arguments) ==
    [content |-> None,
     tool_calls |-> <<[id |-> id, name |-> name, arguments |-> arguments]>>]

\* isinstance(chunk.choices[0].delta.content, str)
IsStr(content) == content # None

\* litellm's stream_chunk_builder(chunks, messages): the assistant message
\* rebuilt from the accumulated chunks (response.choices[0].message.to_dict()).
RECURSIVE ConcatContent(_)
ConcatContent(chunks) ==
    IF chunks = <<>> THEN ""
    ELSE OrEmpty(chunks[1].content) \o ConcatContent(Tail(chunks))

RECURSIVE ConcatToolCalls(_)
ConcatToolCalls(chunks) ==
    IF chunks = <<>> THEN <<>>
    ELSE chunks[1].tool_calls \o ConcatToolCalls(Tail(chunks))

stream_chunk_builder(chunks) ==
    [role |-> "assistant",
     content |-> IF \E i \in 1..Len(chunks) : IsStr(chunks[i].content)
                 THEN ConcatContent(chunks) ELSE None,
     tool_calls |-> ConcatToolCalls(chunks),
     tool_call_id |-> None]

\* A completion request: the arguments of completion / acompletion.
CompletionRequest(model, messages, tools, tool_choice) ==
    [model |-> model, messages |-> messages, tools |-> tools,
     tool_choice |-> tool_choice, stream |-> TRUE]

\* messages[-1]["content"] += suffix
AppendToLastContent(messages, suffix) ==
    [messages EXCEPT ![Len(messages)].content = @ \o suffix]

\* ---------------------------------------------------------------------- rag
\* The state of one generator object: pc is the state of the turn, yielded is
\* TRUE while the generator is suspended at a yield, closed is TRUE once the
\* consumer has abandoned the suspended generator, messages is the caller's
\* list (mutated in place), chunks / tool_calls are the locals of that name,
\* emitted the tokens yielded so far, requests the completion requests made,
\* retrievals the calls made to retrieve_rag_context, error the exception the
\* generator raised (None: none).
NewGenerator(messages) ==
    [pc |-> "INIT", yielded |-> FALSE, closed |-> FALSE, messages |-> messages,
     chunks |-> <<>>,
     tool_calls |-> <<>>, emitted |-> <<>>, requests |-> <<>>,
     retrievals |-> <<>>, error |-> None]

\* Lines 190-206: the first next() runs the generator up to the first
\* completion request.  clipped_messages is a new list holding the same dict
\* objects as messages, so the += of line 197 also changes messages[-1].
rag_start(g, cfg, be) ==
    LET max_tokens == be.context_size
        t == _get_tools(g.messages, cfg, be.supports_function_calling)
        clipped_messages == _clip(g.messages, max_tokens)
        directive == t.tools # <<>> /\ StartsWith(cfg.llm, "llama-cpp-python")
        sent == IF directive
                THEN AppendToLastContent(clipped_messages, ToolDirective(t.tools))
                ELSE clipped_messages
        aliased == IF directive
                   THEN AppendToLastContent(g.messages, ToolDirective(t.tools))
                   ELSE g.messages
    IN  IF t.raised
        THEN [g EXCEPT !.pc = "ERROR", !.error = "ValueError: no RAG context"]
        ELSE [g EXCEPT !.pc = "PHASE1_STREAMING",
                       !.chunks = <<>>,
                       !.messages = aliased,
                       !.requests = Append(@, CompletionRequest(cfg.llm, sent, t.tools, t.tool_choice))]

\* Variant of rag_phase1_chunk that hands the newest token out ahead of the
\* earlier ones.
rag_phase1_chunk_Reordered(g, chunk) ==
    IF IsStr(chunk.content)
    THEN [g EXCEPT !.chunks = Append(@, chunk),
                   !.emitted = <<chunk.content>> \o @,
                   !.yielded = TRUE]
    ELSE [g EXCEPT !.chunks = Append(@, chunk)]

\* Lines 207-210: one iteration of the first for loop.
rag_phase1_chunk(g, chunk) ==
    IF IsStr(chunk.content)
    THEN [g EXCEPT !.chunks = Append(@, chunk),
                   !.emitted = Append(@, chunk.content),
                   !.yielded = TRUE]
    ELSE [g EXCEPT !.chunks = Append(@, chunk)]

\* Lines 212-216 (tool calls) or 212-214, 227-228 (none): the first stream
\* is exhausted.
rag_phase1_end(g) ==
    LET response == stream_chunk_builder(g.chunks)
        tool_calls == response.tool_calls
    IN  IF tool_calls # <<>>
        THEN [g EXCEPT !.pc = "PHASE2_PENDING",
                       !.tool_calls = tool_calls,
                       !.messages = Append(@, response)]
        ELSE [g EXCEPT !.pc = "DONE",
                       !.messages = Append(@, stream_chunk_builder(g.chunks))]

\* Variant of rag_run_tools that sends the whole history in the second
\* request instead of the re-clipped one.
rag_run_tools_Unclipped(g, cfg, be, fail_at) ==
    LET r == _run_tools(g.tool_calls, cfg, fail_at)
        extended == g.messages \o r.tool_messages
    IN  IF r.error # None
        THEN [g EXCEPT !.pc = "ERROR", !.error = r.error,
                       !.retrievals = @ \o r.retrievals]
        ELSE [g EXCEPT !.pc = "PHASE2_STREAMING",
                       !.messages = extended,
                       !.retrievals = @ \o r.retrievals,
                       !.chunks = <<>>,
                       !.requests = Append(@, CompletionRequest(cfg.llm,
                                        extended, <<>>, NoToolChoice))]

\* Lines 218-221: run the tools, extend the history, request the second
\* completion.
rag_run_tools(g, cfg, be, fail_at) ==
    LET max_tokens == be.context_size
        r == _run_tools(g.tool_calls, cfg, fail_at)
        extended == g.messages \o r.tool_messages
    IN  IF r.error # None
        THEN [g EXCEPT !.pc = "ERROR", !.error = r.error,
                       !.retrievals = @ \o r.retrievals]
        ELSE [g EXCEPT !.pc = "PHASE2_STREAMING",
                       !.messages = extended,
                       !.retrievals = @ \o r.retrievals,
                       !.chunks = <<>>,
                       !.requests = Append(@, CompletionRequest(cfg.llm,
                                        _clip(extended, max_tokens), <<>>, NoToolChoice))]

\* Lines 222-225: one iteration of the second for loop.
rag_phase2_chunk(g, chunk) ==
    IF IsStr(chunk.content)
    THEN [g EXCEPT !.chunks = Append(@, chunk),
                   !.emitted = Append(@, chunk.content),
                   !.yielded = TRUE]
    ELSE [g EXCEPT !.chunks = Append(@, chunk)]

\* Lines 227-228: the second stream is exhausted.
\* Variant of rag_phase2_end that runs the tool calls of the phase-2 response
\* too, going back to PHASE2_PENDING.
rag_phase2_end_Loops(g) ==
    LET response == stream_chunk_builder(g.chunks)
    IN  IF response.tool_calls # <<>>
        THEN [g EXCEPT !.pc = "PHASE2_PENDING",
                       !.tool_calls = response.tool_calls,
                       !.messages = Append(@, response)]
        ELSE [g EXCEPT !.pc = "DONE",
                       !.messages = Append(@, response)]

rag_phase2_end(g) ==
    [g EXCEPT !.pc = "DONE",
              !.messages = Append(@, stream_chunk_builder(g.chunks))]

\* The consumer calls next() on a generator suspended at a yield.
rag_resume(g) == [g EXCEPT !.yielded = FALSE]

\* The consumer drops (or closes) the suspended generator: GeneratorExit is
\* raised at the yield and no handler or finally clause runs.
rag_close(g) == [g EXCEPT !.closed = TRUE]

\* ---------------------------------------------------------------- async_rag
\* Lines 233-249.
async_rag_start(g, cfg, be) ==
    LET max_tokens == be.context_size
        t == _get_tools(g.messages, cfg, be.supports_function_calling)
        clipped_messages == _clip(g.messages, max_tokens)
        directive == t.tools # <<>> /\ StartsWith(cfg.llm, "llama-cpp-python")
        sent == IF directive
                THEN AppendToLastContent(clipped_messages, ToolDirective(t.tools))
                ELSE clipped_messages
        aliased == IF directive
                   THEN AppendToLastContent(g.messages, ToolDirective(t.tools))
                   ELSE g.messages
    IN  IF t.raised
        THEN [g EXCEPT !.pc = "ERROR", !.error = "ValueError: no RAG context"]
        ELSE [g EXCEPT !.pc = "PHASE1_STREAMING",
                       !.chunks = <<>>,
                       !.messages = aliased,
                       !.requests = Append(@, CompletionRequest(cfg.llm, sent, t.tools, t.tool_choice))]

\* Lines 250-253.
async_rag_phase1_chunk(g, chunk) ==
    IF IsStr(chunk.content)
    THEN [g EXCEPT !.chunks = Append(@, chunk),
                   !.emitted = Append(@, chunk.content),
                   !.yielded = TRUE]
    ELSE [g EXCEPT !.chunks = Append(@, chunk)]

\* Lines 255-259 (tool calls) or 255-257, 273-274 (none).
async_rag_phase1_end(g) ==
    LET response == stream_chunk_builder(g.chunks)
        tool_calls == response.tool_calls
    IN  IF tool_calls # <<>>
        THEN [g EXCEPT !.pc = "PHASE2_PENDING",
                       !.tool_calls = tool_calls,
                       !.messages = Append(@, response)]
        ELSE [g EXCEPT !.pc = "DONE",
                       !.messages = Append(@, stream_chunk_builder(g.chunks))]

\* Variant of async_rag_run_tools without the chunks = [] of line 264: the
\* final message is then rebuilt from the chunks of both streams.
async_rag_run_tools_NoReset(g, cfg, be, fail_at) ==
    LET max_tokens == be.context_size
        r == _run_tools(g.tool_calls, cfg, fail_at)
        extended == g.messages \o r.tool_messages
    IN  IF r.error # None
        THEN [g EXCEPT !.pc = "ERROR", !.error = r.error,
                       !.retrievals = @ \o r.retrievals]
        ELSE [g EXCEPT !.pc = "PHASE2_STREAMING",
                       !.messages = extended,
                       !.retrievals = @ \o r.retrievals,
                       !.requests = Append(@, CompletionRequest(cfg.llm,
                                        _clip(extended, max_tokens), <<>>, NoToolChoice))]

\* Lines 262-267.
async_rag_run_tools(g, cfg, be, fail_at) ==
    LET max_tokens == be.context_size
        r == _run_tools(g.tool_calls, cfg, fail_at)
        extended == g.messages \o r.tool_messages
    IN  IF r.error # None
        THEN [g EXCEPT !.pc = "ERROR", !.error = r.error,
                       !.retrievals = @ \o r.retrievals]
        ELSE [g EXCEPT !.pc = "PHASE2_STREAMING",
                       !.messages = extended,
                       !.retrievals = @ \o r.retrievals,
                       !.chunks = <<>>,
                       !.requests = Append(@, CompletionRequest(cfg.llm,
                                        _clip(extended, max_tokens), <<>>, NoToolChoice))]

\* Lines 268-271.
async_rag_phase2_chunk(g, chunk) ==
    IF IsStr(chunk.content)
    THEN [g EXCEPT !.chunks = Append(@, chunk),
                   !.emitted = Append(@, chunk.content),
                   !.yielded = TRUE]
    ELSE [g EXCEPT !.chunks = Append(@, chunk)]

\* Lines 273-274.
async_rag_phase2_end(g) ==
    [g EXCEPT !.pc = "DONE",
              !.messages = Append(@, stream_chunk_builder(g.chunks))]

\* The consumer awaits __anext__() on the suspended asynchronous generator.
async_rag_resume(g) == [g EXCEPT !.yielded = FALSE]

\* The consumer drops (or acloses) the suspended asynchronous generator.
async_rag_close(g) == [g EXCEPT !.closed = TRUE]

\* ------------------------------------------------------------------ inputs
\* Model identifiers (RAGLiteConfig.llm).
Models == {"llama-cpp-python/model.gguf", "llama-cpp/model.gguf", "gpt-4o-mini"}

\* Contents of the messages of the caller's history.
UserContents ==
    {"What is the capital of France?",
     "<document index=\"1\">Paris</document> Capital?",
     "{\"from_chunk_id\": 7} Capital?"}

UserMessage(content) ==
    [role |-> "user", content |-> content, tool_calls |-> <<>>, tool_call_id |-> None]

\* An earlier message of the conversation.
PriorMessages == {UserMessage("Which country is Paris in?")}

\* The histories of at most MaxHistory messages: earlier messages, then the
\* user's new message.
Histories ==
    {prior \o <<UserMessage(c)>> :
        prior \in UNION {[1..n -> PriorMessages] : n \in 0..(MaxHistory - 1)},
        c \in UserContents}

\* Values of get_context_size(config).
ContextSizes == {15, 4096}

\* Tokens of the streamed answer.
Tokens == {"Paris", "."}

\* The chunks the backend may deliver as the n-th chunk of the turn, in the
\* first stream (the tool may be offered) ...
Phase1Chunks(n) ==
    {TextChunk(t) : t \in Tokens} \cup {EmptyChunk}
    \cup {ToolCallChunk("call_" \o ToString(n), SearchToolName, a) : a \in Arguments}
    \cup {ToolCallChunk("call_" \o ToString(n), "delete_database", ArgQuery)}

\* ... and in the second stream (no tool is offered).
Phase2Chunks(n) ==
    {TextChunk(t) : t \in Tokens} \cup {EmptyChunk}
    \cup {ToolCallChunk("call_" \o ToString(n), SearchToolName, ArgQuery)}

\* Inputs of a direct call of retrieve_rag_context.
Queries == {"capital of France", "capital of Belgium"}
Neighbors == {<<>>, <<-1, 1>>}

\* ------------------------------------------------------------------- state
VARIABLES
    config,      \* RAGLiteConfig: llm, reranker
    backend,     \* what the completion backend answers for config
    history0,    \* the caller's history when the turn began
    delivered,   \* the chunks the backend has delivered, with their phase
    sync,        \* the generator returned by rag(messages, config=config)
    async,       \* the asynchronous generator returned by async_rag(...)
    retrieval,   \* a direct call of retrieve_rag_context
    clip         \* a direct call of _clip

vars == <<config, backend, history0, delivered, sync, async, retrieval, clip>>

NoClip == [pc |-> "none", messages |-> <<>>, max_tokens |-> 0, returned |-> <<>>]

NoRetrieval ==
    [pc |-> "none", query |-> "", num_chunks |-> 0, chunk_neighbors |-> <<>>,
     num_results |-> 0, chunk_ids |-> <<>>, chunks |-> <<>>, context |-> <<>>]

\* A turn: the same history, configuration and backend are given to rag and
\* to async_rag.
Init ==
    /\ config \in [llm : Models, reranker : BOOLEAN]
    /\ backend \in [supports_function_calling : BOOLEAN, context_size : ContextSizes]
    /\ history0 \in Histories
    /\ delivered = <<>>
    /\ sync = NewGenerator(history0)
    /\ async = NewGenerator(history0)
    /\ retrieval = NoRetrieval
    /\ clip = NoClip

\* The generator waits for its consumer: not started yet, or at a yield.
Suspended(g) == (g.pc = "INIT" \/ g.yielded) /\ ~g.closed
\* The generator is executing in state pc, waiting for the backend.
Running(g, pc) == g.pc = pc /\ ~g.yielded /\ ~g.closed

\* The consumer's first next() / __anext__().
Start ==
    /\ sync.pc = "INIT" /\ async.pc = "INIT"
    /\ ~sync.closed /\ ~async.closed
    /\ sync' = rag_start(sync, config, backend)
    /\ async' = async_rag_start(async, config, backend)
    /\ UNCHANGED <<config, backend, history0, delivered, retrieval, clip>>

\* The backend delivers the next chunk of the first stream.
Phase1Chunk ==
    /\ Running(sync, "PHASE1_STREAMING") /\ Running(async, "PHASE1_STREAMING")
    /\ Len(delivered) < MaxDelivered
    /\ \E chunk \in Phase1Chunks(Len(delivered) + 1) :
        /\ delivered' = Append(delivered, [phase |-> 1, chunk |-> chunk])
        /\ sync' = rag_phase1_chunk(sync, chunk)
        /\ async' = async_rag_phase1_chunk(async, chunk)
    /\ UNCHANGED <<config, backend, history0, retrieval, clip>>

\* The first stream ends.
Phase1End ==
    /\ Running(sync, "PHASE1_STREAMING") /\ Running(async, "PHASE1_STREAMING")
    /\ sync' = rag_phase1_end(sync)
    /\ async' = async_rag_phase1_end(async)
    /\ UNCHANGED <<config, backend, history0, delivered, retrieval, clip>>

\* The tool calls are run; the retrieval of call fail_at raises (0: none).
RunTools ==
    /\ sync.pc = "PHASE2_PENDING" /\ async.pc = "PHASE2_PENDING"
    /\ \E fail_at \in 0..Len(sync.tool_calls) :
        /\ sync' = rag_run_tools(sync, config, backend, fail_at)
        /\ async' = async_rag_run_tools(async, config, backend, fail_at)
    /\ UNCHANGED <<config, backend, history0, delivered, retrieval, clip>>

\* The backend delivers the next chunk of the second stream.
Phase2Chunk ==
    /\ Running(sync, "PHASE2_STREAMING") /\ Running(async, "PHASE2_STREAMING")
    /\ Len(delivered) < MaxDelivered
    /\ \E chunk \in Phase2Chunks(Len(delivered) + 1) :
        /\ delivered' = Append(delivered, [phase |-> 2, chunk |-> chunk])
        /\ sync' = rag_phase2_chunk(sync, chunk)
        /\ async' = async_rag_phase2_chunk(async, chunk)
    /\ UNCHANGED <<config, backend, history0, retrieval, clip>>

\* The second stream ends.
Phase2End ==
    /\ Running(sync, "PHASE2_STREAMING") /\ Running(async, "PHASE2_STREAMING")
    /\ sync' = rag_phase2_end(sync)
    /\ async' = async_rag_phase2_end(async)
    /\ UNCHANGED <<config, backend, history0, delivered, retrieval, clip>>

\* The consumer asks for the next token.
Resume ==
    /\ sync.yielded /\ async.yielded
    /\ ~sync.closed /\ ~async.closed
    /\ sync' = rag_resume(sync)
    /\ async' = async_rag_resume(async)
    /\ UNCHANGED <<config, backend, history0, delivered, retrieval, clip>>

\* The consumer stops consuming.
Close ==
    /\ Suspended(sync) /\ Suspended(async)
    /\ sync' = rag_close(sync)
    /\ async' = async_rag_close(async)
    /\ UNCHANGED <<config, backend, history0, delivered, retrieval, clip>>

Next ==
    \/ Start
    \/ Phase1Chunk
    \/ Phase1End
    \/ RunTools
    \/ Phase2Chunk
    \/ Phase2End
    \/ Resume
    \/ Close

Spec == Init /\ [][Next]_vars

\* A turn whose consumer keeps pulling: the consumer never closes the
\* generator and every next() it owes is made; a stream that can end does
\* end (at most MaxDelivered chunks are delivered), and tool execution
\* returns: no turn stays in PHASE2_PENDING for ever.
NextLive ==
    \/ Start
    \/ Phase1Chunk
    \/ Phase1End
    \/ RunTools
    \/ Phase2Chunk
    \/ Phase2End
    \/ Resume

SpecLive ==
    /\ Init
    /\ [][NextLive]_vars
    /\ WF_vars(Start)
    /\ WF_vars(Phase1End)
    /\ WF_vars(Phase2End)
    /\ WF_vars(Resume)
    /\ []<>(sync.pc # "PHASE2_PENDING" /\ async.pc # "PHASE2_PENDING")

\* ------------------------------------------- retrieve_rag_context, direct
\* A caller invokes retrieve_rag_context(query, num_chunks=..., chunk_neighbors=...,
\* config=config); the three collaborators are called in turn.
InitRetrieve ==
    /\ config \in [llm : Models, reranker : BOOLEAN]
    /\ backend = [supports_function_calling |-> TRUE, context_size |-> 4096]
    /\ history0 = <<>>
    /\ delivered = <<>>
    /\ sync = NewGenerator(<<>>)
    /\ async = NewGenerator(<<>>)
    /\ retrieval \in {[NoRetrieval EXCEPT !.pc = "called", !.query = q,
                                         !.num_chunks = n, !.chunk_neighbors = nb] :
                        q \in Queries, n \in 1..MaxNumChunks, nb \in Neighbors}
    /\ clip = NoClip

\* Lines 46-49: the search backend is asked for num_chunks + extra_chunks results.
RetrieveSearch ==
    /\ retrieval.pc = "called"
    /\ retrieval' = [retrieval EXCEPT
            !.pc = "searched",
            !.num_results = num_results(retrieval.num_chunks, config),
            !.chunk_ids = search(retrieval.query, num_results(retrieval.num_chunks, config))]
    /\ UNCHANGED <<config, backend, history0, delivered, sync, async, clip>>

\* Line 51: rerank.
RetrieveRerank ==
    /\ retrieval.pc = "searched"
    /\ retrieval' = [retrieval EXCEPT
            !.pc = "reranked",
            !.chunks = rerank_chunks(retrieval.query, retrieval.chunk_ids, config)]
    /\ UNCHANGED <<config, backend, history0, delivered, sync, async, clip>>

\* Lines 53-54: the spans of the top num_chunks chunks are returned.
RetrieveSpans ==
    /\ retrieval.pc = "reranked"
    /\ retrieval' = [retrieval EXCEPT
            !.pc = "returned",
            !.context = retrieve_chunk_spans(Truncate(retrieval.chunks, retrieval.num_chunks),
                                             retrieval.chunk_neighbors)]
    /\ UNCHANGED <<config, backend, history0, delivered, sync, async, clip>>

NextRetrieve ==
    \/ RetrieveSearch
    \/ RetrieveRerank
    \/ RetrieveSpans

SpecRetrieve == InitRetrieve /\ [][NextRetrieve]_vars

\* ------------------------------------------------------------ _clip, direct
\* Contents of 0, 0, 1 and 2 approximate tokens (None: a tool-call message).
ClipContents == {None, "ok", "Paris", "Brussels"}

ClipMessages ==
    {[role |-> "user", content |-> c, tool_calls |-> <<>>, tool_call_id |-> None] :
        c \in ClipContents}

\* A caller invokes _clip(messages, max_tokens).
InitClip ==
    /\ config = [llm |-> "gpt-4o-mini", reranker |-> FALSE]
    /\ backend = [supports_function_calling |-> TRUE, context_size |-> 4096]
    /\ history0 = <<>>
    /\ delivered = <<>>
    /\ sync = NewGenerator(<<>>)
    /\ async = NewGenerator(<<>>)
    /\ retrieval = NoRetrieval
    /\ clip \in {[NoClip EXCEPT !.pc = "called", !.messages = m, !.max_tokens = b] :
                    m \in UNION {[1..n -> ClipMessages] : n \in 0..MaxClipLen},
                    b \in 0..MaxBudget}

\* Lines 83-85.
ClipReturn ==
    /\ clip.pc = "called"
    /\ clip' = [clip EXCEPT !.pc = "returned",
                            !.returned = _clip(clip.messages, clip.max_tokens)]
    /\ UNCHANGED <<config, backend, history0, delivered, sync, async, retrieval>>

NextClip == ClipReturn

SpecClip == InitClip /\ [][NextClip]_vars

\* ===================================================================== claims
\* The two generators of the turn.
Turns == {sync, async}

\* The chunks the backend delivered in a phase, in delivery order.
RECURSIVE PhaseChunksOf(_, _)
PhaseChunksOf(log, phase) ==
    IF log = <<>> THEN <<>>
    ELSE (IF log[1].phase = phase THEN <<log[1].chunk>> ELSE <<>>)
         \o PhaseChunksOf(Tail(log), phase)

\* The string-valued deltas of the delivered chunks, in delivery order.
RECURSIVE StringDeltas(_)
StringDeltas(log) ==
    IF log = <<>> THEN <<>>
    ELSE (IF log[1].chunk.content # None THEN <<log[1].chunk.content>> ELSE <<>>)
         \o StringDeltas(Tail(log))

\* The tool calls of the phase-1 response, in call order.
Phase1Calls == ConcatToolCalls(PhaseChunksOf(delivered, 1))

H0 == Len(history0)

\* g's history is history0 followed by k more messages.
ExtendsInput(g, k) ==
    /\ Len(g.messages) = H0 + k
    /\ SubSeq(g.messages, 1, H0) = history0

\* The messages after the input are: the tool-call message, then one
\* tool-result message per call, in call order, the i-th with the i-th id.
ToolMessagesInOrder(g) ==
    /\ Len(g.messages) >= H0 + 1 + Len(Phase1Calls)
    /\ g.messages[H0 + 1].role = "assistant"
    /\ g.messages[H0 + 1].tool_calls = Phase1Calls
    /\ \A i \in 1..Len(Phase1Calls) :
        /\ g.messages[H0 + 1 + i].role = "tool"
        /\ g.messages[H0 + 1 + i].tool_call_id = Phase1Calls[i].id

\* C1: a turn driven to exhaustion without error leaves the input history
\* followed by one assistant message (no tool calls in phase 1), or by the
\* tool-call message, one tool result per call in call order and one final
\* assistant message.
C1_FinalHistory ==
    \A g \in Turns :
        g.pc = "DONE" =>
            IF Phase1Calls = <<>>
            THEN /\ ExtendsInput(g, 1)
                 /\ g.messages[H0 + 1].role = "assistant"
                 /\ g.messages[H0 + 1].tool_calls = <<>>
            ELSE /\ ExtendsInput(g, 1 + Len(Phase1Calls) + 1)
                 /\ ToolMessagesInOrder(g)
                 /\ g.messages[Len(g.messages)].role = "assistant"

\* C2: the history is append-only during a turn: every message of the
\* caller's history stays at its position with its content.
C2_AppendOnly ==
    \A g \in Turns :
        /\ Len(g.messages) >= H0
        /\ SubSeq(g.messages, 1, H0) = history0

\* C3: the tokens emitted are the string-valued deltas in delivery order, and
\* a phase-2 chunk is delivered only after the phase-1 response was rebuilt
\* and every tool result appended.
C3_TokenOrder ==
    \A g \in Turns :
        /\ g.emitted = StringDeltas(delivered)
        /\ \A i \in 1..Len(delivered) : \A j \in 1..Len(delivered) :
                (i < j /\ delivered[i].phase = 2) => delivered[j].phase = 2
        /\ (\E i \in 1..Len(delivered) : delivered[i].phase = 2) =>
                /\ Phase1Calls # <<>>
                /\ ToolMessagesInOrder(g)
                /\ g.messages[H0 + 1] = stream_chunk_builder(PhaseChunksOf(delivered, 1))
                /\ Len(g.retrievals) <= Len(Phase1Calls)

\* A phase-2 token has been emitted.
C3_Witness ==
    /\ sync.pc = "PHASE2_STREAMING" /\ sync.yielded
    /\ async.pc = "PHASE2_STREAMING" /\ async.yielded
    /\ delivered[Len(delivered)].phase = 2
    /\ sync.emitted # <<>>

\* C4: rag and async_rag, given the same history, configuration and backend
\* responses, agree on requests, emitted tokens, history and outcome after
\* every step.
C4_Equivalent ==
    /\ sync.requests = async.requests
    /\ sync.emitted = async.emitted
    /\ sync.messages = async.messages
    /\ sync.retrievals = async.retrievals
    /\ sync.pc = async.pc
    /\ sync.yielded = async.yielded
    /\ sync.error = async.error

\* Both entry points finished a two-phase turn.
C4_Witness ==
    /\ sync.pc = "DONE" /\ async.pc = "DONE"
    /\ Len(async.requests) = 2
    /\ async.emitted # <<>>

\* The input that makes _get_tools fail.
NoContextNoTools ==
    /\ ~(\E s \in RagContextMarkers : Contains(history0[H0].content, s))
    /\ ~backend.supports_function_calling

\* C5: without an embedded-context marker and without function calling the
\* turn fails with the configuration error before any request: no token, no
\* retry, history untouched.
C5_ConfigurationError ==
    \A g \in Turns :
        /\ NoContextNoTools =>
            /\ g.pc \in {"INIT", "ERROR"}
            /\ g.pc = "ERROR" => g.error = "ValueError: no RAG context"
            /\ g.requests = <<>>
            /\ g.emitted = <<>>
            /\ g.retrievals = <<>>
            /\ g.messages = history0
        /\ g.error = "ValueError: no RAG context" => NoContextNoTools

\* The configuration error was raised for a forced-tool-use model.
C5_Witness ==
    /\ sync.pc = "ERROR" /\ async.pc = "ERROR"
    /\ sync.error = "ValueError: no RAG context"
    /\ StartsWith(config.llm, "llama-cpp-python")

\* C6: when tool execution fails in PHASE2_PENDING, the history is the input
\* history plus the tool-call message only, no second request is made and no
\* further token is emitted.
C6_ToolFailure ==
    \A g \in Turns :
        (g.pc = "ERROR" /\ g.error \in {"ValueError: Unknown function", "RetrievalError"}) =>
            /\ g.messages = Append(history0, stream_chunk_builder(PhaseChunksOf(delivered, 1)))
            /\ Len(g.requests) = 1
            /\ PhaseChunksOf(delivered, 2) = <<>>
            /\ g.emitted = StringDeltas(delivered)

\* The retrievals logged for a tool call.
RetrievalsFor(g, id) ==
    {k \in 1..Len(g.retrievals) : g.retrievals[k].tool_call_id = id}

\* {"documents": [span_1, ..., span_n]} with indices 1..n, built from the end.
RECURSIVE DocumentList(_, _)
DocumentList(context, n) ==
    IF n = 0 THEN ""
    ELSE IF n = 1 THEN to_json(context[1], 1)
    ELSE DocumentList(context, n - 1) \o ", " \o to_json(context[n], n)

\* The arguments ask for no search.
NoSearchAsked(kwargs) ==
    \/ kwargs.has_skip /\ kwargs.skip
    \/ kwargs.has_query /\ kwargs.query \in {None, ""}

C8_UnmodifiedBeforeAppend ==
    \A g \in Turns :
        g.pc = "PHASE1_STREAMING" => g.messages = history0

\* C9: a consumer that stops during phase-2 streaming leaves the input
\* history plus the tool-call message and its tool results, without a final
\* assistant message; the final assistant message is only there once the
\* consumer pulled past the last token.
C9_CancelDuringPhase2 ==
    \A g \in Turns :
        /\ g.pc = "PHASE2_STREAMING" =>
            /\ ExtendsInput(g, 1 + Len(Phase1Calls))
            /\ ToolMessagesInOrder(g)
        /\ g.pc = "PHASE1_STREAMING" => Len(g.messages) = H0
        /\ g.yielded => g.pc \in {"PHASE1_STREAMING", "PHASE2_STREAMING"}

\* C10, as claimed: 3 * num_chunks candidates are requested with a reranker,
\* num_chunks without.
C10_ThreeTimes ==
    retrieval.pc \in {"searched", "reranked", "returned"} =>
        retrieval.num_results =
            IF config.reranker THEN 3 * retrieval.num_chunks ELSE retrieval.num_chunks

\* C10, amended: num_chunks + 3 * num_chunks = 4 * num_chunks candidates are
\* requested with a reranker, num_chunks without.
C10_FourTimes ==
    retrieval.pc \in {"searched", "reranked", "returned"} =>
        retrieval.num_results =
            IF config.reranker THEN 4 * retrieval.num_chunks ELSE retrieval.num_chunks

\* A retrieval with a reranker and more than one chunk returned.
C10_Witness ==
    /\ retrieval.pc = "returned"
    /\ config.reranker
    /\ retrieval.num_chunks > 1
    /\ retrieval.num_results > 0

\* The approximate token cost of a message list: the sum of len(content) // 3.
RECURSIVE TokenCost(_)
TokenCost(messages) ==
    IF messages = <<>> THEN 0
    ELSE (Len(IF messages[1].content = None THEN "" ELSE messages[1].content) \div 3)
         + TokenCost(Tail(messages))

\* s is the list of the last k messages of messages.
IsLastK(s, messages, k) ==
    /\ k <= Len(messages)
    /\ s = [i \in 1..k |-> messages[Len(messages) - k + i]]

\* C11, as claimed: a history whose cost is at most the budget (also when it
\* equals the budget) is returned unchanged.
C11_WithinBudgetUnchanged ==
    (clip.pc = "returned" /\ TokenCost(clip.messages) <= clip.max_tokens) =>
        clip.returned = clip.messages

\* C11, amended: a history whose cost is strictly below the budget is
\* returned unchanged.
C11_BelowBudgetUnchanged ==
    (clip.pc = "returned" /\ TokenCost(clip.messages) < clip.max_tokens) =>
        clip.returned = clip.messages

\* A history of several messages, one token below the budget, was returned.
C11_Witness ==
    /\ clip.pc = "returned"
    /\ Len(clip.messages) >= 2
    /\ TokenCost(clip.messages) + 1 = clip.max_tokens
    /\ TokenCost(<<clip.messages[1]>>) > 0

\* C12: when the most recent message alone does not exceed the ceiling, the
\* returned suffix costs no more than the ceiling.
C12_SuffixWithinCeiling ==
    (/\ clip.pc = "returned"
     /\ clip.messages # <<>>
     /\ TokenCost(<<clip.messages[Len(clip.messages)]>>) <= clip.max_tokens) =>
        TokenCost(clip.returned) <= clip.max_tokens

\* C13: a non-empty history yields a non-empty suffix, in order, that holds
\* the most recent message, whatever the ceiling.
C13_NonEmptySuffix ==
    (clip.pc = "returned" /\ clip.messages # <<>>) =>
        /\ clip.returned # <<>>
        /\ \E k \in 1..Len(clip.messages) : IsLastK(clip.returned, clip.messages, k)
        /\ clip.returned[Len(clip.returned)] = clip.messages[Len(clip.messages)]

\* The most recent message alone exceeds the ceiling.
C13_Witness ==
    /\ clip.pc = "returned"
    /\ Len(clip.messages) >= 2
    /\ TokenCost(<<clip.messages[Len(clip.messages)]>>) > clip.max_tokens
    /\ clip.returned # <<>>

\* The last message of the first completion request, and the caller's last
\* message.
FirstRequestLast(g) ==
    g.requests[1].messages[Len(g.requests[1].messages)]

\* The directive of the tool schema was appended to the content sent.
DirectiveAppended(g) ==
    /\ FirstRequestLast(g).content # history0[H0].content
    /\ StartsWith(FirstRequestLast(g).content, history0[H0].content)
    /\ Contains(FirstRequestLast(g).content,
                "Decide whether to use or skip these tools in your response:")

\* C14: the directive is appended to the last message of the phase-1 request
\* exactly when the tool choice is forced; with "auto" or without a tool the
\* content is sent as it is.
C14_DirectiveIffForced ==
    \A g \in Turns :
        Len(g.requests) >= 1 =>
            IF g.requests[1].tool_choice.type = "function"
            THEN DirectiveAppended(g)
            ELSE FirstRequestLast(g).content = history0[H0].content

\* The turn is past PHASE2_PENDING or over.
Decided(g) == g.pc \in {"PHASE2_STREAMING", "DONE", "ERROR"}

\* What holds of every second request: no tools, after the tool-call message
\* and all results, on the re-clipped history; at most two requests, and the
\* tool calls of the second response are not run.
SecondRequestShape(g) ==
    /\ Len(g.requests) <= 2
    /\ Len(g.retrievals) <= Len(Phase1Calls)
    /\ Len(g.requests) = 2 =>
        /\ g.requests[2].tools = <<>>
        /\ g.requests[2].tool_choice = [type |-> None, name |-> None]
        /\ Phase1Calls # <<>>
        /\ ToolMessagesInOrder(g)
        /\ g.requests[2].messages =
              _clip(SubSeq(g.messages, 1, H0 + 1 + Len(Phase1Calls)), backend.context_size)
    /\ g.pc = "DONE" => Len(g.messages) = H0 + (IF Phase1Calls = <<>> THEN 1
                                                ELSE Len(Phase1Calls) + 2)

\* C15, as claimed: a second completion is requested if and only if the
\* phase-1 response holds a tool call.
C15_SecondIffToolCalls ==
    \A g \in Turns :
        /\ SecondRequestShape(g)
        /\ Decided(g) => (Len(g.requests) = 2 <=> Phase1Calls # <<>>)

\* C15, amended: a second completion is requested if and only if the phase-1
\* response holds a tool call and running the tool calls raises nothing.
C15_SecondIffToolCallsRun ==
    \A g \in Turns :
        /\ SecondRequestShape(g)
        /\ Decided(g) =>
            (Len(g.requests) = 2 <=> (Phase1Calls # <<>> /\ g.error = None))

\* A two-request turn is over whose second response held a tool call, and
\* whose second request was clipped.
C15_Witness ==
    /\ sync.pc = "DONE"
    /\ Len(sync.requests) = 2
    /\ sync.messages[Len(sync.messages)].tool_calls # <<>>
    /\ Len(sync.requests[2].messages) < Len(sync.messages) - 1

\* The caller's last message holds an embedded-context marker.
LastHasMarker ==
    \/ Contains(history0[H0].content, "</document>")
    \/ Contains(history0[H0].content, "from_chunk_id")

\* C16: with a marker in the last message _get_tools raises nothing, whatever
\* the model supports, and the phase-1 request carries no tools and no tool
\* choice.
C16_MarkerNoTools ==
    \A g \in Turns :
        LastHasMarker =>
            /\ g.error # "ValueError: no RAG context"
            /\ g.pc # "INIT" => Len(g.requests) >= 1
            /\ Len(g.requests) >= 1 =>
                /\ g.requests[1].tools = <<>>
                /\ g.requests[1].tool_choice = [type |-> None, name |-> None]

\* A turn with the from_chunk_id marker and a model without function calling
\* is streaming.
C16_Witness ==
    /\ Contains(history0[H0].content, "from_chunk_id")
    /\ ~backend.supports_function_calling
    /\ sync.pc = "PHASE1_STREAMING" /\ async.pc = "PHASE1_STREAMING"
    /\ sync.emitted # <<>>

\* The schema of the offered tool has the parameter skip, and requires it.
HasSkip(tool) ==
    /\ \E i \in 1..Len(tool.properties) : tool.properties[i] = "skip"
    /\ \E i \in 1..Len(tool.required) : tool.required[i] = "skip"

NoSkip(tool) ==
    /\ \A i \in 1..Len(tool.properties) : tool.properties[i] # "skip"
    /\ \A i \in 1..Len(tool.required) : tool.required[i] # "skip"

\* C17: when the tool is offered its choice is forced to search_knowledge_base
\* exactly when the schema carries skip (the llama-cpp backend) and is "auto"
\* with a schema without skip otherwise; the choice is null exactly when no
\* tool is offered.
C17_ToolChoice ==
    \A g \in Turns :
        Len(g.requests) >= 1 =>
            LET tools == g.requests[1].tools
                tool_choice == g.requests[1].tool_choice
            IN  /\ tools = <<>> <=> tool_choice = [type |-> None, name |-> None]
                /\ tools # <<>> =>
                    /\ Len(tools) = 1
                    /\ tools[1].name = "search_knowledge_base"
                    /\ HasSkip(tools[1]) \/ NoSkip(tools[1])
                    /\ HasSkip(tools[1]) <=>
                         tool_choice = [type |-> "function", name |-> "search_knowledge_base"]
                    /\ NoSkip(tools[1]) <=> tool_choice = [type |-> "auto", name |-> None]
                    /\ HasSkip(tools[1]) <=> StartsWith(config.llm, "llama-cpp")

\* The tool was offered with a forced choice.
C17_Witness ==
    /\ Len(sync.requests) >= 1
    /\ sync.requests[1].tools # <<>>
    /\ sync.requests[1].tool_choice.type = "function"

\* C18: every tool-result message of a phase-2 request comes after the
\* tool-call message that asked for it.
C18_ToolProtocol ==
    \A g \in Turns :
        Len(g.requests) = 2 =>
            LET sent == g.requests[2].messages
            IN  \A i \in 1..Len(sent) :
                    sent[i].role = "tool" =>
                        \E j \in 1..(i - 1) :
                            \E c \in 1..Len(sent[j].tool_calls) :
                                sent[j].tool_calls[c].id = sent[i].tool_call_id

\* The state changes a turn may make: INIT -> PHASE1_STREAMING ->
\* (DONE | PHASE2_PENDING) -> PHASE2_STREAMING -> DONE, or into the error
\* state where the code raises.
PcOrder ==
    {<<"INIT", "PHASE1_STREAMING">>, <<"INIT", "ERROR">>,
     <<"PHASE1_STREAMING", "DONE">>, <<"PHASE1_STREAMING", "PHASE2_PENDING">>,
     <<"PHASE2_PENDING", "PHASE2_STREAMING">>, <<"PHASE2_PENDING", "ERROR">>,
     <<"PHASE2_STREAMING", "DONE">>}

InOrder ==
    /\ sync'.pc # sync.pc => <<sync.pc, sync'.pc>> \in PcOrder
    /\ async'.pc # async.pc => <<async.pc, async'.pc>> \in PcOrder

Ended == \A g \in Turns : g.pc \in {"DONE", "ERROR"}

\* C19: with finite streams, tool execution that returns and a consumer that
\* keeps pulling, every turn eventually reaches DONE or the error state, and
\* it changes state only along INIT, PHASE1_STREAMING, optionally
\* PHASE2_PENDING and PHASE2_STREAMING, DONE, so no state is entered twice.
C19_Terminates == <>Ended /\ [][InOrder]_vars

\* A turn ended in DONE after both phases, with a token pulled on the way.
C19_Witness ==
    \A g \in Turns :
        /\ g.pc = "DONE"
        /\ Len(g.requests) = 2
        /\ Len(g.emitted) >= 1

====
